---- MODULE Spec2Model ----
(***************************************************************************)
(* A model of get_unique_craters.py (DeepMoon): the incremental crater     *)
(* de-duplication add_unique_craters, the pixel-to-degree conversion and   *)
(* the image loop of extract_unique_craters, with its load/regenerate      *)
(* fallback.                                                               *)
(*                                                                         *)
(* Numbers.  The program computes in float64; the model computes in fixed  *)
(* point: longitudes and latitudes are integers counting hundredths of a   *)
(* degree, radii are integers counting kilometres, pixel coordinates are   *)
(* integers.  A quotient the program compares with a threshold is kept as  *)
(* a fraction <<numerator, denominator>> and compared by cross             *)
(* multiplication, so no comparison is rounded.  A quotient the program    *)
(* stores is rounded to the nearest grid point (RDiv).                     *)
(***************************************************************************)
EXTENDS Integers, Sequences, FiniteSets, TLC

VARIABLES
    \* extract_unique_craters
    pc,              \* position in extract_unique_craters
    CP,              \* the configuration dictionary
    preds,           \* where the predictions came from: "none", "file", "generated"
    caught,          \* what the try block raised and the bare except caught
    raised,          \* the stage whose exception left extract_unique_craters
    i,               \* loop index over images
    id,              \* the geometry read for image i (llbd, pbd, distcoeff rows)
    coords,          \* pixel-space detections of the current image
    tuple_,          \* the same detections in (long, lat, radius)
    craters_unique,  \* the catalog
    origin,          \* per catalog entry, the image that added it (history)
    N_matches_tot,   \* running count of raw detections
    \* direct calls of add_unique_craters
    call,            \* arguments and result of the latest call
    prev,            \* arguments and result of the call before it
    \* the image loop run twice on the same batches under two threshold pairs
    twin

vars == <<pc, CP, preds, caught, raised, i, id, coords, tuple_, craters_unique,
          origin, N_matches_tot, call, prev, twin>>

pipeVars == <<pc, CP, preds, caught, raised, i, id, coords, tuple_,
              craters_unique, origin, N_matches_tot>>

callVars == <<call, prev>>

-----------------------------------------------------------------------------
(* Bounds of the model. *)

\* most images one run of extract_unique_craters processes (CP['n_imgs'])
MaxImgs == 2

\* most detections template_match_t returns for one image
MaxCoords == 2

\* longest batch and longest catalog handed to a direct call
MaxBatch == 2

MaxCatalog == 2

\* batches of the twin run, and their longest length
TwinImgs == 3

TwinBatch == 2

-----------------------------------------------------------------------------
(* Arithmetic helpers. *)

Sq(x) == x * x

\* a / b rounded to the nearest integer (b > 0): a stored float quotient
RDiv(a, b) == (2 * a + b) \div (2 * b)

\* int(a / b): truncation toward zero (b > 0)
Trunc(a, b) == IF a >= 0 THEN a \div b ELSE -((-a) \div b)

Max(a, b) == IF a >= b THEN a ELSE b

\* frac < thresh for frac = <<n, d>> and thresh = <<tn, td>>, td > 0.  A zero
\* denominator is the float division by zero: inf or nan, and every
\* comparison of those with a finite threshold is False.
FracLess(frac, thresh) ==
    /\ frac[2] > 0
    /\ frac[1] * thresh[2] < thresh[1] * frac[2]

\* all sequences over S of length lo..hi
SeqsOf(S, lo, hi) == UNION {[1..n -> S] : n \in lo..hi}

IsPrefix(s, t) == Len(s) <= Len(t) /\ SubSeq(t, 1, Len(s)) = s

-----------------------------------------------------------------------------
(* add_unique_craters *)

\* km_to_deg = 180 / (pi * 1737.4) = 0.032978 degrees per km, here 0.033:
\* 33/10 hundredths of a degree per km.
km_to_deg == <<33, 10>>

\* Variant: the positional difference scaled by the catalog entry's radius.
diff_longlat_by_entry(e, c) ==
    <<(Sq(e[1] - c[1]) + Sq(e[2] - c[2])) * Sq(km_to_deg[2]),
      Sq(e[3] * km_to_deg[1])>>

\* diff_longlat of catalog entry e for candidate c = (lo, la, r), line 79
diff_longlat(e, c) ==
    <<(Sq(e[1] - c[1]) + Sq(e[2] - c[2])) * Sq(km_to_deg[2]),
      Sq(c[3] * km_to_deg[1])>>

\* Variant: the comparison of line 80 turned round.
Rad_flipped(unique, c, thresh_longlat2) ==
    LET Far(e) == FracLess(<<thresh_longlat2[1] * diff_longlat(e, c)[2],
                             thresh_longlat2[2]>>,
                           <<diff_longlat(e, c)[1], 1>>)
        kept == SelectSeq(unique, Far)
    IN  [k \in 1..Len(kept) |-> kept[k][3]]

\* Rad_ = Rad[diff_longlat < thresh_longlat2], line 80
Rad_(unique, c, thresh_longlat2) ==
    LET Near(e) == FracLess(diff_longlat(e, c), thresh_longlat2)
        kept == SelectSeq(unique, Near)
    IN  [k \in 1..Len(kept) |-> kept[k][3]]

\* Variant: the radius difference as a fraction of the catalog entry's radius.
diff_rad_by_entry(R, r) == <<Sq(R - r), Sq(R)>>

\* diff_rad = ((Rad_ - r) / r)**2 for one element of Rad_, line 83
diff_rad(R, r) == <<Sq(R - r), Sq(r)>>

\* index = diff_rad < thresh_rad2 ; len(np.where(index == True)[0]), lines 84-85
CountIndex(rads, r, thresh_rad2) ==
    Cardinality({k \in 1..Len(rads) : FracLess(diff_rad(rads[k], r), thresh_rad2)})

\* Variant: the radius test run over every catalog radius, not over Rad_.
Stacked_any_entry(snapshot, c, thresh_longlat2, thresh_rad2) ==
    LET rads == Rad_(snapshot, c, thresh_longlat2)
        Rad  == [k \in 1..Len(snapshot) |-> snapshot[k][3]]
    IN  IF Len(rads) > 0
        THEN CountIndex(Rad, c[3], thresh_rad2) = 0
        ELSE TRUE

\* Variant: stacked unless every longlat-near radius passes (all for any).
Stacked_unless_all(snapshot, c, thresh_longlat2, thresh_rad2) ==
    LET rads == Rad_(snapshot, c, thresh_longlat2)
    IN  IF Len(rads) > 0
        THEN CountIndex(rads, c[3], thresh_rad2) < Len(rads)
        ELSE TRUE

\* Variant: the else branch of line 87 left out.
Stacked_no_else(snapshot, c, thresh_longlat2, thresh_rad2) ==
    LET rads == Rad_(snapshot, c, thresh_longlat2)
    IN  IF Len(rads) > 0
        THEN CountIndex(rads, c[3], thresh_rad2) = 0
        ELSE FALSE

\* The decision for candidate c against the Long, Lat, Rad columns read from
\* `snapshot`, lines 79-88: TRUE when craters[j] is stacked onto the catalog.
Stacked(snapshot, c, thresh_longlat2, thresh_rad2) ==
    LET rads == Rad_(snapshot, c, thresh_longlat2)
    IN  IF Len(rads) > 0
        THEN CountIndex(rads, c[3], thresh_rad2) = 0
        ELSE TRUE

\* The loop of lines 76-88 from index j on.  Long, Lat, Rad are the columns of
\* the catalog as passed in (line 75) and are not read again.
RECURSIVE AddLoop(_, _, _, _, _, _)
AddLoop(j, craters, snapshot, unique, thresh_longlat2, thresh_rad2) ==
    IF j > Len(craters) THEN unique
    ELSE AddLoop(j + 1, craters, snapshot,
                 IF Stacked(snapshot, craters[j], thresh_longlat2, thresh_rad2)
                 THEN Append(unique, craters[j])
                 ELSE unique,
                 thresh_longlat2, thresh_rad2)

\* Variant: Long, Lat, Rad read again from the grown catalog on every pass.
RECURSIVE AddLoopRereading(_, _, _, _, _)
AddLoopRereading(j, craters, unique, thresh_longlat2, thresh_rad2) ==
    IF j > Len(craters) THEN unique
    ELSE AddLoopRereading(j + 1, craters,
                 IF Stacked(unique, craters[j], thresh_longlat2, thresh_rad2)
                 THEN Append(unique, craters[j])
                 ELSE unique,
                 thresh_longlat2, thresh_rad2)

add_unique_craters_rereading(craters, unique, thresh_longlat2, thresh_rad2) ==
    AddLoopRereading(1, craters, unique, thresh_longlat2, thresh_rad2)

\* Variant: np.vstack((craters[j], craters_unique)), the new row stacked first.
add_unique_craters_stack_first(craters, unique, thresh_longlat2, thresh_rad2) ==
    LET r == AddLoop(1, craters, unique, unique, thresh_longlat2, thresh_rad2)
        n == Len(r) - Len(unique)
    IN  [k \in 1..n |-> r[Len(r) + 1 - k]] \o unique

add_unique_craters(craters, unique, thresh_longlat2, thresh_rad2) ==
    AddLoop(1, craters, unique, unique, thresh_longlat2, thresh_rad2)

-----------------------------------------------------------------------------
(* Direct calls of add_unique_craters. *)

\* physical detections (long, lat, radius) a caller passes
Craters == {<<0, 0, 10>>, <<30, 0, 10>>, <<0, 30, 10>>, <<0, 0, 17>>, <<200, 0, 10>>}

\* thresholds a caller passes, as fractions
ThreshLongLat2 == {<<0, 1>>, <<3, 5>>, <<9, 5>>}

ThreshRad2 == {<<0, 1>>, <<2, 5>>}

NoCall == [made |-> FALSE, kind |-> "none", craters |-> <<>>, unique |-> <<>>,
           thresh_longlat2 |-> <<0, 1>>, thresh_rad2 |-> <<0, 1>>,
           result |-> <<>>]

DoCall(kind, craters, unique, t1, t2) ==
    [made |-> TRUE, kind |-> kind, craters |-> craters, unique |-> unique,
     thresh_longlat2 |-> t1, thresh_rad2 |-> t2,
     result |-> add_unique_craters(craters, unique, t1, t2)]

\* a call with arguments of the caller's choosing
CallMerge ==
    /\ ~call.made
    /\ \E craters \in SeqsOf(Craters, 0, MaxBatch),
          unique \in SeqsOf(Craters, 0, MaxCatalog),
          t1 \in ThreshLongLat2, t2 \in ThreshRad2 :
            call' = DoCall("fresh", craters, unique, t1, t2)
    /\ prev' = NoCall
    /\ UNCHANGED <<pipeVars, twin>>

\* the same batch merged again into the catalog the latest call returned
CallRemerge ==
    /\ call.made
    /\ ~prev.made
    /\ call' = DoCall("remerge", call.craters, call.result,
                      call.thresh_longlat2, call.thresh_rad2)
    /\ prev' = call
    /\ UNCHANGED <<pipeVars, twin>>

\* the latest call was one candidate against one entry: call again with the
\* two detections' roles exchanged
CallSwapped ==
    /\ call.made
    /\ ~prev.made
    /\ Len(call.craters) = 1
    /\ Len(call.unique) = 1
    /\ call' = DoCall("swapped", call.unique, call.craters,
                      call.thresh_longlat2, call.thresh_rad2)
    /\ prev' = call
    /\ UNCHANGED <<pipeVars, twin>>

-----------------------------------------------------------------------------
(* The conversion of one image's detections, lines 152-166. *)

\* trf.km2pix(dim, span, distcoeff): the scale the radii are divided by,
\* degrees per pixel times km per degree, over the distortion coefficient.
km2pix(dim, span, dc) == <<span * km_to_deg[2], dim * km_to_deg[1] * dc>>

\* np.cos(np.pi * lat_deg / 180.), by Bhaskara's rational approximation
\* cos(d degrees) = (32400 - 4 d^2) / (32400 + d^2), d the latitude in whole
\* degrees, |d| < 90.
cos_lat(lat_deg) ==
    LET d == RDiv(lat_deg, 100)
    IN  <<32400 - 4 * Sq(d), 32400 + Sq(d)>>

\* the pixel the offsets are taken from, lines 163-164
pix_centre == 128

long_central(g) == RDiv(g.llbd[1] + g.llbd[2], 2)

lat_central(g) == RDiv(g.llbd[3] + g.llbd[4], 2)

\* deg_per_pix, lines 161-162, as a fraction
deg_per_pix(g, dim) == <<g.llbd[4] - g.llbd[3], dim * g.distcoeff>>

\* lat_deg of a detection at pixel row lat_pix, line 163
lat_deg(g, dim, lat_pix) ==
    LET dpp == deg_per_pix(g, dim)
    IN  lat_central(g) - RDiv(dpp[1] * (lat_pix - pix_centre), dpp[2])

\* long_deg of a detection at pixel (long_pix, lat_pix), lines 164-165
long_deg(g, dim, long_pix, lat_pix) ==
    LET dpp == deg_per_pix(g, dim)
        cs  == cos_lat(lat_deg(g, dim, lat_pix))
        off == RDiv(dpp[1] * (long_pix - pix_centre), dpp[2])
    IN  long_central(g) + RDiv(off * cs[2], cs[1])

\* radii_km, line 158
radii_km(g, dim, radii_pix) ==
    LET km_to_pix == km2pix(dim, g.llbd[4] - g.llbd[3], g.distcoeff)
    IN  RDiv(radii_pix * km_to_pix[2], km_to_pix[1])

\* tuple_ = np.column_stack((long_deg, lat_deg, radii_km)), line 166
column_stack(g, dim, cs) ==
    [k \in 1..Len(cs) |->
        <<long_deg(g, dim, cs[k][1], cs[k][2]),
          lat_deg(g, dim, cs[k][2]),
          radii_km(g, dim, cs[k][3])>>]

\* minrad handed to template_match_t, lines 143-148
minrad(g) ==
    LET rawlen == g.pbd[3] - g.pbd[1]
    IN  IF rawlen < 4000
        THEN Max(Trunc(3 * rawlen - 3000, 1000), 3)
        ELSE 9

-----------------------------------------------------------------------------
(* The data extract_unique_craters reads. *)

\* CP['dim']
Dims == {256, 512}

\* CP['llt2'] and CP['rt2']
Llt2Values == {<<9, 5>>}

Rt2Values == {<<2, 5>>, <<3, 5>>}

\* rows of longlat_bounds, pix_bounds and pix_distortion_coefficient found
\* in the data file for an image
Geometries ==
    { [llbd |-> <<-128, 128, 5872, 6128>>, pbd |-> <<0, 0, 2000, 2000>>,
       distcoeff |-> 1],
      [llbd |-> <<-88, 168, 5872, 6128>>, pbd |-> <<1000, 0, 5000, 4000>>,
       distcoeff |-> 2] }

NoGeometry == [llbd |-> <<0, 0, 0, 0>>, pbd |-> <<0, 0, 0, 0>>, distcoeff |-> 1]

\* detections tmt.template_match_t can return on a dim x dim image: candidate
\* circles of radius at least minrad, among them one at the image centre
template_match_t(dim, mr) ==
    { c \in { <<dim \div 2, dim \div 2, 3>>,
              <<dim \div 2 + 25, dim \div 2, 9>> } : c[3] >= mr }

\* what the try block of lines 124-126 can raise
LoadErrors == {"missing_file", "missing_dataset", "unreadable_file"}

-----------------------------------------------------------------------------
(* extract_unique_craters *)

\* lines 124-126: the predictions file is read
LoadPreds ==
    /\ pc = "load"
    /\ preds' = "file"
    /\ pc' = "open"
    /\ UNCHANGED <<CP, caught, raised, i, id, coords, tuple_, craters_unique,
                   origin, N_matches_tot, callVars, twin>>

\* Variant: `except IOError` for a missing file only; anything else the try
\* block raises leaves extract_unique_craters.
LoadFails_only_missing ==
    /\ pc = "load"
    /\ \E e \in LoadErrors :
         /\ caught' = (IF e = "missing_file" THEN e ELSE caught)
         /\ raised' = (IF e = "missing_file" THEN raised ELSE "load")
         /\ pc' = (IF e = "missing_file" THEN "regen" ELSE "raised")
    /\ UNCHANGED <<CP, preds, i, id, coords, tuple_, craters_unique,
                   origin, N_matches_tot, callVars, twin>>

\* lines 124-128: the try block raises and the bare except catches it,
\* whatever it is
LoadFails ==
    /\ pc = "load"
    /\ \E e \in LoadErrors : caught' = e
    /\ pc' = "regen"
    /\ UNCHANGED <<CP, preds, raised, i, id, coords, tuple_, craters_unique,
                   origin, N_matches_tot, callVars, twin>>

\* line 129: get_model_preds returns
Regenerate ==
    /\ pc = "regen"
    /\ preds' = "generated"
    /\ pc' = "open"
    /\ UNCHANGED <<CP, caught, raised, i, id, coords, tuple_, craters_unique,
                   origin, N_matches_tot, callVars, twin>>

\* line 129: get_model_preds raises (lines 34-48), outside any try
RegenerateFails ==
    /\ pc = "regen"
    /\ raised' = "regen"
    /\ pc' = "raised"
    /\ UNCHANGED <<CP, preds, caught, i, id, coords, tuple_, craters_unique,
                   origin, N_matches_tot, callVars, twin>>

\* lines 132-138: the data file is opened
OpenData ==
    /\ pc = "open"
    /\ pc' = "loop"
    /\ UNCHANGED <<CP, preds, caught, raised, i, id, coords, tuple_,
                   craters_unique, origin, N_matches_tot, callVars, twin>>

\* line 132 or 136 raises
OpenFails ==
    /\ pc = "open"
    /\ raised' = "open"
    /\ pc' = "raised"
    /\ UNCHANGED <<CP, preds, caught, i, id, coords, tuple_, craters_unique,
                   origin, N_matches_tot, callVars, twin>>

\* lines 169-174: the catalog after an image with the non-empty batch t
merge_image(t, unique, llt2, rt2) ==
    IF Len(unique) > 0
    THEN add_unique_craters(t, unique, llt2, rt2)
    ELSE unique \o t

\* one iteration of the loop of lines 139-174
ProcessImage ==
    /\ pc = "loop"
    /\ i < CP.n_imgs
    /\ \E g \in Geometries :
         \E cs \in SeqsOf(template_match_t(CP.dim, minrad(g)), 0, MaxCoords) :
            /\ id' = g
            /\ coords' = cs
            /\ IF Len(cs) > 0
               THEN LET t == column_stack(g, CP.dim, cs)
                        new == merge_image(t, craters_unique, CP.llt2, CP.rt2)
                    IN  /\ tuple_' = t
                        /\ N_matches_tot' = N_matches_tot + Len(cs)
                        /\ craters_unique' = new
                        /\ origin' = origin \o
                              [k \in 1..(Len(new) - Len(craters_unique)) |-> i]
               ELSE UNCHANGED <<tuple_, N_matches_tot, craters_unique, origin>>
    /\ i' = i + 1
    /\ UNCHANGED <<pc, CP, preds, caught, raised, callVars, twin>>

\* a lookup of lines 140-162 raises for image i
LookupFails ==
    /\ pc = "loop"
    /\ i < CP.n_imgs
    /\ raised' = "loop"
    /\ pc' = "raised"
    /\ UNCHANGED <<CP, preds, caught, i, id, coords, tuple_, craters_unique,
                   origin, N_matches_tot, callVars, twin>>

\* lines 176-177
Save ==
    /\ pc = "loop"
    /\ i >= CP.n_imgs
    /\ pc' = "done"
    /\ UNCHANGED <<CP, preds, caught, raised, i, id, coords, tuple_,
                   craters_unique, origin, N_matches_tot, callVars, twin>>

\* line 176 raises
SaveFails ==
    /\ pc = "loop"
    /\ i >= CP.n_imgs
    /\ raised' = "save"
    /\ pc' = "raised"
    /\ UNCHANGED <<CP, preds, caught, i, id, coords, tuple_, craters_unique,
                   origin, N_matches_tot, callVars, twin>>

NoTwin == [k |-> 0, lo |-> <<>>, hi |-> <<>>, same |-> TRUE,
           thresh_lo |-> <<<<0, 1>>, <<0, 1>>>>,
           thresh_hi |-> <<<<0, 1>>, <<0, 1>>>>]

\* extract_unique_craters(CP, craters_unique) is entered with an empty catalog
Init ==
    /\ pc = "load"
    /\ CP \in [n_imgs : 0..MaxImgs, dim : Dims, llt2 : Llt2Values, rt2 : Rt2Values]
    /\ preds = "none"
    /\ caught = "none"
    /\ raised = "none"
    /\ i = 0
    /\ id = NoGeometry
    /\ coords = <<>>
    /\ tuple_ = <<>>
    /\ craters_unique = <<>>
    /\ origin = <<>>
    /\ N_matches_tot = 0
    /\ call = NoCall
    /\ prev = NoCall
    /\ twin = NoTwin

Next ==
    \/ LoadPreds
    \/ LoadFails
    \/ Regenerate
    \/ RegenerateFails
    \/ OpenData
    \/ OpenFails
    \/ ProcessImage
    \/ LookupFails
    \/ Save
    \/ SaveFails

Spec == Init /\ [][Next]_vars

-----------------------------------------------------------------------------
(* add_unique_craters called on its own. *)

InitCalls ==
    /\ pc = "idle"
    /\ CP = [n_imgs |-> 0, dim |-> 256, llt2 |-> <<0, 1>>, rt2 |-> <<0, 1>>]
    /\ preds = "none"
    /\ caught = "none"
    /\ raised = "none"
    /\ i = 0
    /\ id = NoGeometry
    /\ coords = <<>>
    /\ tuple_ = <<>>
    /\ craters_unique = <<>>
    /\ origin = <<>>
    /\ N_matches_tot = 0
    /\ call = NoCall
    /\ prev = NoCall
    /\ twin = NoTwin

NextCalls ==
    \/ CallMerge
    \/ CallRemerge
    \/ CallSwapped

SpecCalls == InitCalls /\ [][NextCalls]_vars

-----------------------------------------------------------------------------
(* The catalog update of the image loop, run on one sequence of batches     *)
(* under two threshold pairs.                                               *)

\* batches (already in long, lat, radius) the images produce
TwinCraters == {<<0, 0, 10>>, <<30, 0, 10>>, <<50, 0, 10>>, <<0, 0, 30>>}

\* <<(llt2, rt2), (llt2', rt2')>>: one threshold raised, the other held
TwinThresholds ==
    { <<<<<<3, 5>>, <<2, 5>>>>, <<<<9, 5>>, <<2, 5>>>>>>,
      <<<<<<9, 5>>, <<2, 5>>>>, <<<<9, 5>>, <<3, 5>>>>>> }

\* lines 151, 169-174 for one image's batch
image_step(batch, unique, thresh) ==
    IF Len(batch) > 0
    THEN merge_image(batch, unique, thresh[1], thresh[2])
    ELSE unique

TwinImage ==
    /\ twin.k < TwinImgs
    /\ \E batch \in SeqsOf(TwinCraters, 0, TwinBatch) :
         twin' = [twin EXCEPT
                    !.k = @ + 1,
                    !.same = (twin.lo = twin.hi),
                    !.lo = image_step(batch, @, twin.thresh_lo),
                    !.hi = image_step(batch, @, twin.thresh_hi)]
    /\ UNCHANGED <<pipeVars, callVars>>

InitTwin ==
    /\ pc = "idle"
    /\ CP = [n_imgs |-> 0, dim |-> 256, llt2 |-> <<0, 1>>, rt2 |-> <<0, 1>>]
    /\ preds = "none"
    /\ caught = "none"
    /\ raised = "none"
    /\ i = 0
    /\ id = NoGeometry
    /\ coords = <<>>
    /\ tuple_ = <<>>
    /\ craters_unique = <<>>
    /\ origin = <<>>
    /\ N_matches_tot = 0
    /\ call = NoCall
    /\ prev = NoCall
    /\ \E th \in TwinThresholds :
         twin = [NoTwin EXCEPT !.thresh_lo = th[1], !.thresh_hi = th[2]]

NextTwin == TwinImage

SpecTwin == InitTwin /\ [][NextTwin]_vars

-----------------------------------------------------------------------------
(* The matching rule of the specification text, for catalog entry           *)
(* e = (Long, Lat, Rad) and candidate c = (lo, la, r) with r > 0:            *)
(*   ((Long-lo)^2 + (Lat-la)^2) / (r*K)^2 < thresh_longlat2                  *)
(*   ((Rad-r)/r)^2 < thresh_rad2                                             *)
(* cleared of its denominators.                                              *)

Matches(e, c, t1, t2) ==
    /\ c[3] > 0
    /\ (Sq(e[1] - c[1]) + Sq(e[2] - c[2])) * Sq(km_to_deg[2]) * t1[2]
          < t1[1] * Sq(c[3]) * Sq(km_to_deg[1])
    /\ Sq(e[3] - c[3]) * t2[2] < t2[1] * Sq(c[3])

MatchesAny(unique, c, t1, t2) ==
    \E k \in 1..Len(unique) : Matches(unique[k], c, t1, t2)

Positive(t) == t[1] > 0 /\ t[2] > 0

CallPositive == Positive(call.thresh_longlat2) /\ Positive(call.thresh_rad2)

-----------------------------------------------------------------------------
(* Properties of add_unique_craters (specification SpecCalls). *)

\* C1: with a non-empty catalog and positive thresholds, a candidate is
\* discarded exactly when some entry of the catalog passed in satisfies both
\* tests; the result is the catalog passed in followed by the other
\* candidates in batch order.
C1_DiscardedIffSomeEntryMatches ==
    (call.made /\ Len(call.unique) > 0 /\ CallPositive) =>
        LET Kept(c) == ~MatchesAny(call.unique, c, call.thresh_longlat2,
                                   call.thresh_rad2)
        IN  call.result = call.unique \o SelectSeq(call.craters, Kept)

\* a call that discards its first candidate and appends its second, the
\* discarded one being near a second entry that fails the radius test
C1_Witness ==
    /\ call.kind = "fresh"
    /\ CallPositive
    /\ Len(call.unique) = 2
    /\ Len(call.craters) = 2
    /\ MatchesAny(call.unique, call.craters[1], call.thresh_longlat2,
                  call.thresh_rad2)
    /\ ~MatchesAny(call.unique, call.craters[2], call.thresh_longlat2,
                   call.thresh_rad2)
    /\ call.result = Append(call.unique, call.craters[2])

\* C3: with positive thresholds, a batch whose every detection equals some
\* catalog entry leaves the catalog's size unchanged; so does merging a batch
\* a second time into the catalog its first merge returned.
C3_RemergeAddsNothing ==
    /\ (call.made /\ CallPositive
          /\ \A j \in 1..Len(call.craters) :
                \E k \in 1..Len(call.unique) : call.unique[k] = call.craters[j])
       => Len(call.result) = Len(call.unique)
    /\ (call.kind = "remerge" /\ CallPositive)
       => Len(call.result) = Len(call.unique)

\* a second merge of a batch whose first merge grew a non-empty catalog
C3_Witness ==
    /\ call.kind = "remerge"
    /\ CallPositive
    /\ Len(prev.unique) > 0
    /\ Len(prev.result) > Len(prev.unique)
    /\ call.craters = prev.craters
    /\ call.unique = prev.result
    /\ call.result = call.unique

\* C7: one candidate against one entry is discarded exactly when both tests
\* pass with the candidate's own radius as the scale.
C7_CandidateRadiusIsTheScale ==
    (call.made /\ Len(call.craters) = 1 /\ Len(call.unique) = 1) =>
        LET c == call.craters[1]
            e == call.unique[1]
            t1 == call.thresh_longlat2
            t2 == call.thresh_rad2
            both ==
               /\ (Sq(e[1] - c[1]) + Sq(e[2] - c[2])) * 100 * t1[2]
                     < t1[1] * Sq(33 * c[3])
               /\ Sq(e[3] - c[3]) * t2[2] < t2[1] * Sq(c[3])
        IN  call.result = (IF both THEN <<e>> ELSE <<e, c>>)

\* b merged into [a] was discarded; a merged into [b] is appended
C7_Witness ==
    /\ call.kind = "swapped"
    /\ CallPositive
    /\ prev.result = prev.unique
    /\ call.craters = prev.unique
    /\ call.unique = prev.craters
    /\ call.result = call.unique \o call.craters

\* C9: two candidates of one batch that match each other, neither matching an
\* entry of the catalog passed in, are both appended, in batch order.
C9_BatchMembersNotCompared ==
    call.made =>
        \A j, k \in 1..Len(call.craters) :
            LET t1 == call.thresh_longlat2
                t2 == call.thresh_rad2
                cj == call.craters[j]
                ck == call.craters[k]
            IN  (/\ j < k
                 /\ Matches(cj, ck, t1, t2) \/ Matches(ck, cj, t1, t2)
                 /\ ~MatchesAny(call.unique, cj, t1, t2)
                 /\ ~MatchesAny(call.unique, ck, t1, t2))
                => \E p, q \in (Len(call.unique) + 1)..Len(call.result) :
                      p < q /\ call.result[p] = cj /\ call.result[q] = ck

\* two different detections of one batch, the second matching the first,
\* both appended to a non-empty catalog
C9_Witness ==
    /\ call.kind = "fresh"
    /\ CallPositive
    /\ Len(call.unique) > 0
    /\ Len(call.craters) = 2
    /\ call.craters[1] # call.craters[2]
    /\ Matches(call.craters[1], call.craters[2], call.thresh_longlat2,
               call.thresh_rad2)
    /\ call.result = call.unique \o call.craters

-----------------------------------------------------------------------------
(* Properties of extract_unique_craters (specification Spec). *)

\* C4: the first non-empty batch, met with an empty catalog, becomes the
\* catalog whole and in order, and add_unique_craters given the same batch
\* and an empty catalog returns the same catalog.
C4_FirstBatchKeptWhole ==
    (Len(coords) > 0 /\ N_matches_tot = Len(coords)) =>
        /\ craters_unique = tuple_
        /\ Len(craters_unique) = Len(coords)
        /\ add_unique_craters(tuple_, <<>>, CP.llt2, CP.rt2) = craters_unique

\* the second image brings the first batch, twice the same detection
C4_Witness ==
    /\ i = 2
    /\ Len(coords) = 2
    /\ coords[1] = coords[2]
    /\ N_matches_tot = 2
    /\ craters_unique = tuple_

\* C5: a detection at the image centre (x = y = dim/2) is converted to the
\* geometry's central longitude and central latitude, whatever dim and the
\* distortion coefficient are.
C5_CentreMapsToCentre ==
    \A k \in 1..Len(coords) :
        (2 * coords[k][1] = CP.dim /\ 2 * coords[k][2] = CP.dim) =>
            /\ 2 * tuple_[k][1] = id.llbd[1] + id.llbd[2]
            /\ 2 * tuple_[k][2] = id.llbd[3] + id.llbd[4]

\* C6: every step leaves the old catalog as a prefix of the new one, and an
\* image without detections leaves the catalog as it was.
C6_AppendOnly ==
    [][/\ IsPrefix(craters_unique, craters_unique')
       /\ (i' = i + 1 /\ coords' = <<>>) => craters_unique' = craters_unique]_vars

\* the second image extended the first image's catalog and had a candidate
\* discarded
C6_Witness ==
    /\ Len(origin) >= 2
    /\ origin[1] = 0
    /\ origin[Len(origin)] = 1
    /\ N_matches_tot > Len(craters_unique)

\* C8 as stated: predictions are regenerated only when the predictions file
\* is missing; any other failure while loading them propagates.
C8_OnlyMissingFileRecovered ==
    /\ (pc = "regen" \/ preds = "generated") => caught = "missing_file"
    /\ (caught # "none" /\ caught # "missing_file") => raised = "load"

\* C8 amended: whatever the try block raises is caught and answered by
\* get_model_preds; regeneration has no other cause; a failure of any later
\* stage leaves the function, and no failure of the try block does.
C8_AnyLoadFailureRecovered ==
    /\ raised # "load"
    /\ caught # "none" => (pc = "regen" \/ preds = "generated" \/ raised = "regen")
    /\ (pc = "regen" \/ preds = "generated" \/ raised = "regen") => caught # "none"
    /\ preds = "file" => caught = "none"
    /\ raised # "none" <=> pc = "raised"
    /\ raised \in {"open", "loop", "save"} => preds \in {"file", "generated"}

\* a run that found the file without its dataset, regenerated and finished
C8_Witness ==
    /\ caught = "missing_dataset"
    /\ preds = "generated"
    /\ pc = "done"
    /\ Len(craters_unique) > 0

\* C10: an entry added by a later image, taken as candidate, matches no entry
\* added by an earlier image.
C10_LaterEntryMatchesNoEarlier ==
    \A a, b \in 1..Len(craters_unique) :
        origin[a] < origin[b] =>
            ~Matches(craters_unique[a], craters_unique[b], CP.llt2, CP.rt2)

\* entries of two images where only the other direction matches: the
\* earlier entry, taken as candidate, matches the later one
C10_Witness ==
    \E a, b \in 1..Len(craters_unique) :
        /\ origin[a] < origin[b]
        /\ Matches(craters_unique[b], craters_unique[a], CP.llt2, CP.rt2)

-----------------------------------------------------------------------------
(* Properties of the thresholds (specification SpecTwin). *)

\* C2 as stated: for one sequence of batches, the catalog under the raised
\* threshold is never the larger one.
C2_RaisedThresholdNeverLarger == Len(twin.hi) <= Len(twin.lo)

\* C2 amended: when both runs held the same catalog before an image, the
\* catalog under the raised threshold is not the larger one after it.
C2_OneMergeIsMonotone == twin.same => Len(twin.hi) <= Len(twin.lo)

\* from a common non-empty catalog the raised threshold discarded more
C2_Witness ==
    /\ twin.same
    /\ twin.k >= 2
    /\ Len(twin.hi) >= 1
    /\ Len(twin.hi) < Len(twin.lo)

====
